---------------------------- MODULE Spec2Model ----------------------------
(***************************************************************************)
(* Ozone / peroxone treatment simulator (OzoneandAOP).                     *)
(*                                                                         *)
(* The engine, calculateTreatmentResults (EPA-calibrated variant), is a    *)
(* pure function of three parameter records.  App keeps the system and     *)
(* water parameters as state, recomputes the result on every edit and can  *)
(* reset the parameters to their defaults.                                 *)
(*                                                                         *)
(* JavaScript numbers are modelled as decimal floating-point values        *)
(*     <<m, e>>  standing for  m * 10^e,                                   *)
(* with an 8-digit mantissa (m = 0 and e = 0, or 10^7 <= |m| < 10^8),      *)
(* rounded to nearest after every operation, and the three non-finite      *)
(* values NaN, +Infinity and -Infinity.  The arithmetic is written as      *)
(* functions, so that every argument is evaluated once.                    *)
(***************************************************************************)
EXTENDS Integers, Sequences, FiniteSets, TLC

(***************************************************************************)
(* Number: the arithmetic of the JavaScript number type.                   *)
(***************************************************************************)
NaN == <<0, 1>>

PosInf == <<1, 0>>

NegInf == <<-1, 0>>

Zero == <<0, 0>>

\* the values of the number type
Num == Int \X Int

IsNaN(x) == x = NaN

IsInf(x) == x = PosInf \/ x = NegInf

\* Number.isFinite
IsFinite(x) == ~IsNaN(x) /\ ~IsInf(x)

AbsInt(n) == IF n < 0 THEN -n ELSE n

SignInt(n) == IF n < 0 THEN -1 ELSE IF n > 0 THEN 1 ELSE 0

MaxInt(a, b) == IF a >= b THEN a ELSE b

P10Table == <<1, 10, 100, 1000, 10000, 100000, 1000000, 10000000, 100000000, 1000000000>>

\* 10^k for 0 <= k <= 9
P10(k) == P10Table[k + 1]

\* number of decimal digits of a, 1 <= a < 2^31
NumDigits[a \in Int] ==
  IF a < 10000
  THEN IF a < 100 THEN (IF a < 10 THEN 1 ELSE 2) ELSE (IF a < 1000 THEN 3 ELSE 4)
  ELSE IF a < 1000000
       THEN (IF a < 100000 THEN 5 ELSE 6)
       ELSE IF a < 100000000
            THEN (IF a < 10000000 THEN 7 ELSE 8)
            ELSE (IF a < 1000000000 THEN 9 ELSE 10)

\* sign s, 8-digit mantissa mm, exponent ee: overflow to an infinity above
\* 10^308 (Number.MAX_VALUE ~ 1.8e308), underflow to zero below 10^-324
\* (Number.MIN_VALUE ~ 4.9e-324)
Pack[mm \in Int, s \in Int, ee \in Int] ==
  IF ee + 7 > 308 THEN (IF s > 0 THEN PosInf ELSE NegInf)
  ELSE IF ee + 7 < -324 THEN Zero
  ELSE <<s * mm, ee>>

NormCarry[r \in Int, s \in Int, ee \in Int] ==
  IF r >= 100000000 THEN Pack[10000000, s, ee + 1] ELSE Pack[r, s, ee]

\* a of d digits rounded to 8 digits, half away from zero
NormDigits[a \in Int, s \in Int, e \in Int, d \in Int] ==
  IF d > 8
  THEN NormCarry[(a + (P10(d - 8) \div 2)) \div P10(d - 8), s, e + d - 8]
  ELSE Pack[a * P10(8 - d), s, e + d - 8]

\* the number nearest to m * 10^e
Norm[m \in Int, e \in Int] ==
  IF m = 0 THEN Zero ELSE NormDigits[AbsInt(m), SignInt(m), e, NumDigits[AbsInt(m)]]

\* a decimal literal of the source: Dec[55, -2] is 0.55
Dec[m \in Int, e \in Int] == Norm[m, e]

\* the integer n as a number, |n| < 2^31
FromInt[n \in Int] == Norm[n, 0]

One == Dec[1, 0]

\* -x
Neg[x \in Num] ==
  IF IsNaN(x) THEN NaN
  ELSE IF x = PosInf THEN NegInf
  ELSE IF x = NegInf THEN PosInf
  ELSE <<-x[1], x[2]>>

\* the 16-digit product h * 10^8 + t * 10^4 cut to its leading 9 digits
MulTop[h \in Int, t \in Int, s \in Int, e \in Int] ==
  Norm[s * ((h + (t \div 10000)) * 10 + ((t % 10000) \div 1000)), e]

MulLimbs[a1 \in Int, a0 \in Int, b1 \in Int, b0 \in Int, s \in Int, e \in Int] ==
  MulTop[a1 * b1, (a1 * b0 + a0 * b1) + ((a0 * b0) \div 10000), s, e]

\* x * y
Mul[x \in Num, y \in Num] ==
  IF IsNaN(x) \/ IsNaN(y) THEN NaN
  ELSE IF IsInf(x) \/ IsInf(y)
       THEN (IF x = Zero \/ y = Zero THEN NaN
             ELSE IF SignInt(x[1]) * SignInt(y[1]) > 0 THEN PosInf ELSE NegInf)
  ELSE IF x[1] = 0 \/ y[1] = 0 THEN Zero
  ELSE MulLimbs[AbsInt(x[1]) \div 10000, AbsInt(x[1]) % 10000,
                AbsInt(y[1]) \div 10000, AbsInt(y[1]) % 10000,
                SignInt(x[1]) * SignInt(y[1]), x[2] + y[2] + 7]

\* n more quotient digits of r / b, appended to q
LongDiv[r \in Int, b \in Int, q \in Int, n \in Int] ==
  IF n = 0 THEN q
  ELSE LongDiv[(r * 10) % b, b, q * 10 + ((r * 10) \div b), n - 1]

DivMag[a \in Int, b \in Int, s \in Int, e \in Int] ==
  Norm[s * LongDiv[a % b, b, a \div b, 8], e]

\* x / y
Div[x \in Num, y \in Num] ==
  IF IsNaN(x) \/ IsNaN(y) THEN NaN
  ELSE IF IsInf(x)
       THEN (IF IsInf(y) THEN NaN
             ELSE IF (x[1] > 0) = (y[1] >= 0) THEN PosInf ELSE NegInf)
  ELSE IF IsInf(y) THEN Zero
  ELSE IF y[1] = 0
       THEN (IF x[1] = 0 THEN NaN ELSE IF x[1] > 0 THEN PosInf ELSE NegInf)
  ELSE IF x[1] = 0 THEN Zero
  ELSE DivMag[AbsInt(x[1]), AbsInt(y[1]), SignInt(x[1]) * SignInt(y[1]), x[2] - y[2] - 8]

\* mantissa m with one guard digit, moved k digits down
Shift[m \in Int, k \in Int] ==
  IF k > 9 THEN 0 ELSE SignInt(m) * ((AbsInt(m) * 10) \div P10(k))

AddAligned[x \in Num, y \in Num, e \in Int] ==
  Norm[Shift[x[1], e - x[2]] + Shift[y[1], e - y[2]], e - 1]

\* x + y
Add[x \in Num, y \in Num] ==
  IF IsNaN(x) \/ IsNaN(y) THEN NaN
  ELSE IF IsInf(x) THEN (IF IsInf(y) /\ x # y THEN NaN ELSE x)
  ELSE IF IsInf(y) THEN y
  ELSE IF x[1] = 0 THEN y
  ELSE IF y[1] = 0 THEN x
  ELSE AddAligned[x, y, MaxInt(x[2], y[2])]

\* x - y
Sub[x \in Num, y \in Num] == Add[x, Neg[y]]

\* x < y, false when either is NaN
Lt(x, y) ==
  IF IsNaN(x) \/ IsNaN(y) THEN FALSE
  ELSE IF x = y THEN FALSE
  ELSE IF x = NegInf \/ y = PosInf THEN TRUE
  ELSE IF x = PosInf \/ y = NegInf THEN FALSE
  ELSE Sub[x, y][1] < 0

Gt(x, y) == Lt(y, x)

\* x <= y, false when either is NaN
Le(x, y) == ~IsNaN(x) /\ ~IsNaN(y) /\ (x = y \/ Lt(x, y))

Ge(x, y) == Le(y, x)

\* Math.max, Math.min: NaN when either argument is NaN
MathMax[x \in Num, y \in Num] == IF IsNaN(x) \/ IsNaN(y) THEN NaN ELSE IF Lt(x, y) THEN y ELSE x

MathMin[x \in Num, y \in Num] == IF IsNaN(x) \/ IsNaN(y) THEN NaN ELSE IF Lt(y, x) THEN y ELSE x

\* x || d : d when x is falsy (0 or NaN)
OrElse[x \in Num, d \in Num] == IF x = Zero \/ IsNaN(x) THEN d ELSE x

\* Math.floor of a finite x with |x| < 10^9, as an integer
FloorInt[x \in Num] ==
  IF x[1] = 0 THEN 0
  ELSE IF x[2] >= 0 THEN x[1] * P10(x[2])
  ELSE IF -x[2] > 9 THEN (IF x[1] < 0 THEN -1 ELSE 0)
  ELSE x[1] \div P10(-x[2])

\* log10(e), ln(10) / 8 and the Taylor coefficients 1/k! of exp
LOG10E == Dec[434294482, -9]

LN10_8 == Dec[287823137, -9]

ExpCoef == << Dec[1, 0], Dec[5, -1], Dec[166666667, -9], Dec[416666667, -10],
              Dec[833333333, -11], Dec[138888889, -11], Dec[198412698, -12],
              Dec[248015873, -13] >>

\* exp(g) for 0 <= g < 0.3
ExpSmall[g \in Num] ==
  Add[One, Mul[g, Add[ExpCoef[1], Mul[g, Add[ExpCoef[2], Mul[g,
  Add[ExpCoef[3], Mul[g, Add[ExpCoef[4], Mul[g, Add[ExpCoef[5], Mul[g,
  Add[ExpCoef[6], Mul[g, Add[ExpCoef[7], Mul[g, ExpCoef[8]]]]]]]]]]]]]]]]]

Sq[x \in Num] == Mul[x, x]

ScaleExp10[r \in Num, n \in Int] == Norm[r[1], r[2] + n]

\* 10^y for y = n + f, n = floor(y): 10^n * (exp(f * ln(10) / 8))^8
Exp10Split[y \in Num, n \in Int] ==
  ScaleExp10[Sq[Sq[Sq[ExpSmall[Mul[Sub[y, FromInt[n]], LN10_8]]]]], n]

Exp10[y \in Num] ==
  IF y[1] # 0 /\ y[2] + 7 >= 3
  THEN (IF y[1] > 0 THEN PosInf ELSE Zero)
  ELSE Exp10Split[y, FloorInt[y]]

\* Math.exp: exp(x) = 10^(x * log10(e))
MathExp[x \in Num] ==
  IF IsNaN(x) THEN NaN
  ELSE IF x = PosInf THEN PosInf
  ELSE IF x = NegInf THEN Zero
  ELSE Exp10[Mul[x, LOG10E]]

\* natural logarithms of the bases the engine raises to a power
LN_1_04 == Dec[392207132, -10]

LN_1_075 == Dec[723206616, -10]

LN_1_5 == Dec[405465108, -9]

\* Math.pow(base, y) = exp(y * ln(base)), lnBase the logarithm of the base
MathPow[lnBase \in Num, y \in Num] == IF y = Zero THEN One ELSE MathExp[Mul[y, lnBase]]

\* x rounded to d decimals when its last digit stands k places below them
RoundAt[x \in Num, d \in Int, k \in Int] ==
  IF k <= 0 THEN x
  ELSE IF k > 8 THEN Zero
  ELSE Norm[SignInt(x[1]) * ((AbsInt(x[1]) + (P10(k) \div 2)) \div P10(k)), -d]

\* parseFloat(x.toFixed(d)): x rounded to d decimals, ties away from zero
ToFixed[x \in Num, d \in Int] ==
  IF ~IsFinite(x) \/ x[1] = 0 THEN x ELSE RoundAt[x, d, -(x[2] + d)]

(***************************************************************************)
(* The state of the application.                                           *)
(***************************************************************************)
VARIABLES
  systemParams,   \* useState<OzoneSystemParams>
  waterParams,    \* useState<WaterQualityParams>
  kineticParams,  \* the kinetics argument of the engine
  results,        \* useMemo: the TreatmentResult of the current parameters
  lastCall,       \* history: arguments and result of the previous engine call
  steps,          \* history: number of user operations so far
  aiAnalysis,     \* useState<AiAnalysis | null>
  isAnalyzing,    \* useState(false)
  inflight,       \* the triggerAiAnalysis call awaiting getExpertAnalysis, if any
  run             \* one run of the engine, statement group by statement group

(***************************************************************************)
(* calculateTreatmentResults: the EPA CT-table calibrated engine.          *)
(* system, water and kinetics are records of numbers.                      *)
(***************************************************************************)

\* 0. Hydraulics and Ozone Residual
tempCorrection(water) == Add[One, Mul[Sub[water.temperature, Dec[20, 0]], Dec[2, -2]]]

ozoneDemand(water) == Mul[Add[Mul[water.doc, Dec[55, -2]], Dec[2, -1]], tempCorrection(water)]

h2o2Consumption(system) == Mul[system.h2o2Dose, Dec[8, -1]]

\* the residual without its floor at zero
calculatedResidual_NoFloor(system, water) ==
  Sub[Sub[system.ozoneDose, ozoneDemand(water)], h2o2Consumption(system)]

calculatedResidual(system, water) ==
  MathMax[Zero, Sub[Sub[system.ozoneDose, ozoneDemand(water)], h2o2Consumption(system)]]

volume(system) == Mul[Mul[system.tankLength, system.tankWidth], system.waterDepth]

\* the retention time without the zero-flow guard
hrt_Unguarded(system) == Mul[Div[volume(system), system.flowRate], Dec[60, 0]]

\* minutes
hrt(system) == Mul[Div[volume(system), OrElse[system.flowRate, One]], Dec[60, 0]]

\* the retention time taken as the contact time
t10_NoBaffling(system) == hrt(system)

t10(system) == Mul[hrt(system), system.bafflingFactor]

\* residual x T10
\* a CT value scaled by a counter of the calls made so far
ctValue_CallCounting(residual, contactTime) ==
  Mul[Mul[residual, contactTime], Dec[steps + 1, 0]]

ctValue(residual, contactTime) == Mul[residual, contactTime]

\* 1. Oxidation Kinetics (Second Order Basis)
aopFactor(system) ==
  IF Gt(system.h2o2Dose, Zero)
  THEN Add[One, Mul[Div[system.h2o2Dose, OrElse[system.ozoneDose, One]], Dec[2, 0]]]
  ELSE One

phRadicalFactor(water) == Add[One, Mul[Sub[water.ph, Dec[7, 0]], Dec[5, -1]]]

scavengingImpact(water) == Div[One, Add[One, Mul[water.doc, Dec[2, -1]]]]

exposure(system, contactTime) == Div[Mul[system.ozoneDose, contactTime], Dec[10, 0]]

mibBaseFactor(kinetics) ==
  Add[Mul[Div[kinetics.mib_kOH, Dec[5, 9]], Dec[65, -2]], Mul[kinetics.mib_kO3, Dec[1, -2]]]

geosminBaseFactor(kinetics) ==
  Add[Mul[Div[kinetics.geosmin_kOH, Dec[78, 8]], Dec[78, -2]], Mul[kinetics.geosmin_kO3, Dec[1, -2]]]

\* Math.pow(1.04, water.temperature - 20)
tempFactorOx(water) == MathPow[LN_1_04, Sub[water.temperature, Dec[20, 0]]]

\* a rate constant that grows with the influent MIB concentration
k_eff_mib_PerConcentration(system, water, kinetics) ==
  Mul[Mul[Mul[Mul[Mul[mibBaseFactor(kinetics), aopFactor(system)], phRadicalFactor(water)],
              scavengingImpact(water)], tempFactorOx(water)], water.mib]

k_eff_mib(system, water, kinetics) ==
  Mul[Mul[Mul[Mul[mibBaseFactor(kinetics), aopFactor(system)], phRadicalFactor(water)],
          scavengingImpact(water)], tempFactorOx(water)]

k_eff_geosmin(system, water, kinetics) ==
  Mul[Mul[Mul[Mul[geosminBaseFactor(kinetics), aopFactor(system)], phRadicalFactor(water)],
          scavengingImpact(water)], tempFactorOx(water)]

mibFrac(system, water, kinetics, contactTime) ==
  MathExp[Mul[Neg[k_eff_mib(system, water, kinetics)], exposure(system, contactTime)]]

geosminFrac(system, water, kinetics, contactTime) ==
  MathExp[Mul[Neg[k_eff_geosmin(system, water, kinetics)], exposure(system, contactTime)]]

\* 2. Bromate Formation
\* the peroxide term multiplied in instead of divided out
bromateSuppressionH2O2_Inverted(system) == Add[One, Mul[system.h2o2Dose, Dec[15, -1]]]

bromateSuppressionH2O2(system) == Div[One, Add[One, Mul[system.h2o2Dose, Dec[15, -1]]]]

ammoniaInhibition(water) == Div[One, Add[One, Mul[water.ammonia, Dec[5, 0]]]]

bromate(system, water, contactTime) ==
  Mul[Mul[Mul[Mul[Mul[Mul[Dec[4, -3], water.bromide], system.ozoneDose],
                  MathPow[LN_1_5, Sub[water.ph, Dec[7, 0]]]],
              Div[contactTime, Dec[10, 0]]],
          bromateSuppressionH2O2(system)],
      ammoniaInhibition(water)]

\* 3. DOC
docMineralization(system) ==
  Mul[Mul[Dec[18, -3], system.ozoneDose], IF Gt(system.h2o2Dose, Zero) THEN Dec[125, -2] ELSE One]

finalDoc(system, water) ==
  Mul[water.doc, Sub[One, MathMin[Dec[25, -2], docMineralization(system)]]]

\* 4. Disinfection (US EPA CT Table Regressions)
t(water) == MathMax[Dec[5, -1], water.temperature]

isAopMode(system) == Gt(system.h2o2Dose, Zero)

\* Math.pow(1.075, 20 - t)
ctTempFactor(water) == MathPow[LN_1_075, Sub[Dec[20, 0], t(water)]]

ctReqCrypto1Log(tempFactor) == Mul[Dec[12, 0], tempFactor]

ctReqBacteria1Log(tempFactor) == Mul[Dec[48, -2], tempFactor]

ctReqVirus3Log(tempFactor) == Mul[Dec[25, -2], tempFactor]

\* the credits kept in AOP mode
Disqualify_Keep(aop, lrv) == lrv

\* Constraint: with H2O2 added (AOP) the ozone disinfection credits are disqualified
Disqualify(aop, lrv) == IF aop THEN Zero ELSE lrv

lrvProtozoa(system, ct, tempFactor) ==
  Disqualify(isAopMode(system), Div[ct, ctReqCrypto1Log(tempFactor)])

lrvBacteria(system, ct, tempFactor) ==
  Disqualify(isAopMode(system), Div[ct, ctReqBacteria1Log(tempFactor)])

lrvVirus(system, ct, tempFactor) ==
  Disqualify(isAopMode(system), Mul[Div[ct, ctReqVirus3Log(tempFactor)], Dec[3, 0]])

\* no cap on the credits
MAX_LOG_CREDIT_None == PosInf

\* Capping all credits at 4.00 log
MAX_LOG_CREDIT == Dec[4, 0]

\* the return record with finalDoc decayed by the MIB fraction
calculateTreatmentResults_DocByMibFrac(system, water, kinetics) ==
  LET residual == calculatedResidual(system, water)
      contactTime == t10(system)
      ct == ctValue(residual, contactTime)
      mibF == mibFrac(system, water, kinetics, contactTime)
      geosminF == geosminFrac(system, water, kinetics, contactTime)
      fDoc == Mul[water.doc, mibF]
      tempFactor == ctTempFactor(water)
  IN  [ bromate |-> ToFixed[bromate(system, water, contactTime), 2],
        finalPh |-> ToFixed[Sub[water.ph, Mul[Dec[3, -2], system.ozoneDose]], 2],
        finalMib |-> ToFixed[Mul[water.mib, mibF], 2],
        finalGeosmin |-> ToFixed[Mul[water.geosmin, geosminF], 2],
        finalDoc |-> ToFixed[fDoc, 2],
        removalMibPercent |-> ToFixed[Mul[Sub[One, mibF], Dec[100, 0]], 1],
        removalGeosminPercent |-> ToFixed[Mul[Sub[One, geosminF], Dec[100, 0]], 1],
        removalDocPercent |-> ToFixed[Mul[Sub[One, Div[fDoc, water.doc]], Dec[100, 0]], 1],
        contactTimeT10 |-> ToFixed[contactTime, 1],
        ctValue |-> ToFixed[ct, 2],
        lrvVirus |-> ToFixed[MathMin[MAX_LOG_CREDIT, lrvVirus(system, ct, tempFactor)], 2],
        lrvBacteria |-> ToFixed[MathMin[MAX_LOG_CREDIT, lrvBacteria(system, ct, tempFactor)], 2],
        lrvProtozoa |-> ToFixed[MathMin[MAX_LOG_CREDIT, lrvProtozoa(system, ct, tempFactor)], 2],
        calculatedResidual |-> ToFixed[residual, 2] ]

calculateTreatmentResults(system, water, kinetics) ==
  LET residual == calculatedResidual(system, water)
      contactTime == t10(system)
      ct == ctValue(residual, contactTime)
      mibF == mibFrac(system, water, kinetics, contactTime)
      geosminF == geosminFrac(system, water, kinetics, contactTime)
      fDoc == finalDoc(system, water)
      tempFactor == ctTempFactor(water)
  IN  [ bromate |-> ToFixed[bromate(system, water, contactTime), 2],
        finalPh |-> ToFixed[Sub[water.ph, Mul[Dec[3, -2], system.ozoneDose]], 2],
        finalMib |-> ToFixed[Mul[water.mib, mibF], 2],
        finalGeosmin |-> ToFixed[Mul[water.geosmin, geosminF], 2],
        finalDoc |-> ToFixed[fDoc, 2],
        removalMibPercent |-> ToFixed[Mul[Sub[One, mibF], Dec[100, 0]], 1],
        removalGeosminPercent |-> ToFixed[Mul[Sub[One, geosminF], Dec[100, 0]], 1],
        removalDocPercent |-> ToFixed[Mul[Sub[One, Div[fDoc, water.doc]], Dec[100, 0]], 1],
        contactTimeT10 |-> ToFixed[contactTime, 1],
        ctValue |-> ToFixed[ct, 2],
        lrvVirus |-> ToFixed[MathMin[MAX_LOG_CREDIT, lrvVirus(system, ct, tempFactor)], 2],
        lrvBacteria |-> ToFixed[MathMin[MAX_LOG_CREDIT, lrvBacteria(system, ct, tempFactor)], 2],
        lrvProtozoa |-> ToFixed[MathMin[MAX_LOG_CREDIT, lrvProtozoa(system, ct, tempFactor)], 2],
        calculatedResidual |-> ToFixed[residual, 2] ]

(***************************************************************************)
(* App: the parameter state and its handlers.                              *)
(***************************************************************************)
DEFAULT_SYSTEM_PARAMS ==
  [ flowRate |-> Dec[1000, 0], ozoneDose |-> Dec[25, -1], h2o2Dose |-> Zero,
    tankLength |-> Dec[15, 0], tankWidth |-> Dec[5, 0], waterDepth |-> Dec[4, 0],
    bafflingFactor |-> Dec[6, -1] ]

DEFAULT_WATER_PARAMS ==
  [ ph |-> Dec[78, -1], bromide |-> Dec[150, 0], ammonia |-> Dec[5, -2], doc |-> Dec[45, -1],
    mib |-> Dec[40, 0], geosmin |-> Dec[35, 0], temperature |-> Dec[15, 0] ]

\* a kinetics argument at the reference bases of the base factors
\* (mib_kOH = 5e9, geosmin_kOH = 7.8e9)
ReferenceKinetics ==
  [ mib_kO3 |-> Dec[35, -2], mib_kOH |-> Dec[5, 9],
    geosmin_kO3 |-> Dec[1, -1], geosmin_kOH |-> Dec[78, 8] ]

\* another kinetics argument
OverrideKinetics ==
  [ mib_kO3 |-> Dec[1, 0], mib_kOH |-> Dec[3, 9],
    geosmin_kO3 |-> Dec[5, -1], geosmin_kOH |-> Dec[1, 10] ]

\* number of user operations (edits and resets) explored from the initial state
MaxSteps == 2

\* the values an edit may give each field: the defaults, in-range values, and
\* values outside the sliders' ranges that the number box accepts
SystemDomain ==
  [ flowRate |-> {Dec[1000, 0], Zero},
    ozoneDose |-> {Dec[25, -1], Zero, Dec[1, 0], Dec[5, 0], Dec[241, -2]},
    h2o2Dose |-> {Zero, Dec[1, -1], Dec[2, 0]},
    tankLength |-> {Dec[15, 0], Dec[30, 0]},
    tankWidth |-> {Dec[5, 0]},
    waterDepth |-> {Dec[4, 0]},
    bafflingFactor |-> {Dec[6, -1], Dec[1, 0]} ]

WaterDomain ==
  [ ph |-> {Dec[78, -1], Dec[4, 0], Dec[9, 0]},
    bromide |-> {Dec[150, 0], Zero},
    ammonia |-> {Dec[5, -2], Dec[5, -1]},
    doc |-> {Dec[45, -1], Zero},
    mib |-> {Dec[40, 0], Dec[80, 0]},
    geosmin |-> {Dec[35, 0], Dec[70, 0]},
    temperature |-> {Dec[15, 0], Dec[-40, 0], Dec[11000, 0]} ]

KineticDomain == {ReferenceKinetics, OverrideKinetics}

vars == <<systemParams, waterParams, kineticParams, results, lastCall, steps,
          aiAnalysis, isAnalyzing, inflight, run>>

\* null
Null == [null |-> TRUE]

\* no call of triggerAiAnalysis is awaiting, and none has resolved yet
\* (resetSince and last are history: a reset since the call started; the
\* response and value of the last call that resolved, and whether a reset
\* had happened while it was awaiting)
NoRequest ==
  [ pending |-> FALSE, request |-> [none |-> TRUE], resetSince |-> FALSE,
    last |-> [resolved |-> FALSE, response |-> [none |-> TRUE], outcome |-> Null,
              stale |-> FALSE] ]

\* no run of the engine is being followed
NoRun == [pc |-> "none"]

ThisCall == [ system |-> systemParams, water |-> waterParams,
              kinetics |-> kineticParams, result |-> results ]

Init ==
  /\ systemParams = DEFAULT_SYSTEM_PARAMS
  /\ waterParams = DEFAULT_WATER_PARAMS
  /\ kineticParams = ReferenceKinetics
  /\ steps = 0
  /\ results = calculateTreatmentResults(systemParams, waterParams, kineticParams)
  /\ lastCall = ThisCall
  /\ aiAnalysis = Null
  /\ isAnalyzing = FALSE
  /\ inflight = NoRequest
  /\ run = NoRun

\* setSystemParams(prev => ({ ...prev, [key]: value })), then the results memo
HandleSystemChange(key, value) ==
  /\ steps < MaxSteps
  /\ value # systemParams[key]
  /\ systemParams' = [systemParams EXCEPT ![key] = value]
  /\ UNCHANGED <<waterParams, kineticParams>>
  /\ results' = calculateTreatmentResults(systemParams', waterParams', kineticParams')
  /\ lastCall' = ThisCall
  /\ steps' = steps + 1
  /\ UNCHANGED <<aiAnalysis, isAnalyzing, inflight, run>>

\* setWaterParams(prev => ({ ...prev, [key]: value })), then the results memo
HandleWaterChange(key, value) ==
  /\ steps < MaxSteps
  /\ value # waterParams[key]
  /\ waterParams' = [waterParams EXCEPT ![key] = value]
  /\ UNCHANGED <<systemParams, kineticParams>>
  /\ results' = calculateTreatmentResults(systemParams', waterParams', kineticParams')
  /\ lastCall' = ThisCall
  /\ steps' = steps + 1
  /\ UNCHANGED <<aiAnalysis, isAnalyzing, inflight, run>>

\* the engine called with another kinetics argument
CallWithKinetics(value) ==
  /\ steps < MaxSteps
  /\ value # kineticParams
  /\ kineticParams' = value
  /\ UNCHANGED <<systemParams, waterParams>>
  /\ results' = calculateTreatmentResults(systemParams', waterParams', kineticParams')
  /\ lastCall' = ThisCall
  /\ steps' = steps + 1
  /\ UNCHANGED <<aiAnalysis, isAnalyzing, inflight, run>>

\* handleReset: both parameter records back to their defaults
HandleReset ==
  /\ steps < MaxSteps
  /\ systemParams' = DEFAULT_SYSTEM_PARAMS
  /\ waterParams' = DEFAULT_WATER_PARAMS
  /\ aiAnalysis' = Null
  /\ UNCHANGED kineticParams
  /\ results' = calculateTreatmentResults(systemParams', waterParams', kineticParams')
  /\ lastCall' = ThisCall
  /\ steps' = steps + 1
  /\ inflight' = [inflight EXCEPT !.resetSince = inflight.pending]
  /\ UNCHANGED <<isAnalyzing, run>>

\* parseFloat(e.target.value) for the texts typed into a field: the numbers
\* of the field's domain, and NaN for a text that denotes no number
ParsedTexts(domain) == domain \cup {NaN}

\* the number box of InputGroup: onChange(parseFloat(e.target.value) || 0)
NumberBoxValue(parsed) == OrElse[parsed, Zero]

Next ==
  \/ \E key \in DOMAIN SystemDomain : \E parsed \in ParsedTexts(SystemDomain[key]) :
       HandleSystemChange(key, NumberBoxValue(parsed))
  \/ \E key \in DOMAIN WaterDomain : \E parsed \in ParsedTexts(WaterDomain[key]) :
       HandleWaterChange(key, NumberBoxValue(parsed))
  \/ \E value \in KineticDomain : CallWithKinetics(value)
  \/ HandleReset

Spec == Init /\ [][Next]_vars

(***************************************************************************)
(* getExpertAnalysis and the AI analysis state of App.                     *)
(* An AiAnalysis-like JavaScript object is a record of its three           *)
(* properties, each absent, a text or a list of texts.                     *)
(***************************************************************************)
Absent == [type |-> "undefined", text |-> "", items |-> <<>>]

Text(str) == [type |-> "string", text |-> str, items |-> <<>>]

List(seq) == [type |-> "array", text |-> "", items |-> seq]

Object(summary, recommendations, warnings) ==
  [ kind |-> "object", summary |-> summary, recommendations |-> recommendations,
    warnings |-> warnings ]

\* the value returned by the catch block
FALLBACK ==
  Object(Text("AI Analysis is currently unavailable. Please check manual calculations."),
         List(<<"Ensure CT is maintained for target LRVs.",
                "Verify bromate formation potential.">>),
         List(<<"Engine connectivity issue.">>))

\* response texts of the service: one that follows the response schema, an
\* empty one, an object without the lists, and one that is no JSON
FULL_TEXT ==
  "{\"summary\":\"Residual is low.\",\"recommendations\":[\"Raise the ozone dose.\"],\"warnings\":[]}"

PARTIAL_TEXT == "{\"summary\":\"ok\"}"

ResponseTexts == {FULL_TEXT, "", PARTIAL_TEXT, "Service Unavailable"}

\* what generateContent does: it rejects, or resolves with a response text
Responses ==
  {[kind |-> "rejects", text |-> ""]} \cup {[kind |-> "resolves", text |-> txt] : txt \in ResponseTexts}

\* JSON.parse throws
SyntaxError == [error |-> "SyntaxError"]

\* JSON.parse on the texts above and on "{}"
JsonParse(text) ==
  CASE text = FULL_TEXT ->
         Object(Text("Residual is low."), List(<<"Raise the ozone dose.">>), List(<<>>))
    [] text = "{}" -> Object(Absent, Absent, Absent)
    [] text = PARTIAL_TEXT -> Object(Text("ok"), Absent, Absent)
    [] OTHER -> SyntaxError

\* JSON.parse outside the try block: a text that is no JSON is not caught
getExpertAnalysis_ParseUncaught(system, water, result, response) ==
  IF response.kind = "rejects" THEN FALLBACK
  ELSE JsonParse(IF response.text = "" THEN "{}" ELSE response.text)

\* the value getExpertAnalysis resolves with when generateContent behaves as
\* `response`
getExpertAnalysis(system, water, result, response) ==
  IF response.kind = "rejects" THEN FALLBACK
  ELSE IF JsonParse(IF response.text = "" THEN "{}" ELSE response.text) = SyntaxError
       THEN FALLBACK
       ELSE JsonParse(IF response.text = "" THEN "{}" ELSE response.text)

\* triggerAiAnalysis up to its await (the button is disabled while
\* isAnalyzing)
TriggerAiAnalysis ==
  /\ ~isAnalyzing
  /\ isAnalyzing' = TRUE
  /\ inflight' = [inflight EXCEPT !.pending = TRUE,
                                  !.request = [system |-> systemParams, water |-> waterParams,
                                               result |-> results],
                                  !.resetSince = FALSE]
  /\ UNCHANGED <<systemParams, waterParams, kineticParams, results, lastCall, steps,
                 aiAnalysis, run>>

\* triggerAiAnalysis after its await: setAiAnalysis(analysis), setIsAnalyzing(false)
ResolveAiAnalysis(response) ==
  /\ inflight.pending
  /\ aiAnalysis' = getExpertAnalysis(inflight.request.system, inflight.request.water,
                                     inflight.request.result, response)
  /\ isAnalyzing' = FALSE
  /\ inflight' = [inflight EXCEPT !.pending = FALSE,
                                  !.last = [resolved |-> TRUE, response |-> response,
                                            outcome |-> aiAnalysis',
                                            stale |-> inflight.resetSince]]
  /\ UNCHANGED <<systemParams, waterParams, kineticParams, results, lastCall, steps, run>>

\* getExpertAnalysis rejects: new GoogleGenAI({ apiKey: process.env.API_KEY })
\* throws before the try block is entered.  The await of triggerAiAnalysis
\* throws in turn, and neither setAiAnalysis nor setIsAnalyzing(false) runs.
RejectAiAnalysis ==
  /\ inflight.pending
  /\ inflight' = [inflight EXCEPT !.pending = FALSE]
  /\ UNCHANGED <<systemParams, waterParams, kineticParams, results, lastCall, steps,
                 aiAnalysis, isAnalyzing, run>>

\* the edits followed together with the analysis
AdvisoryEdits == {"ozoneDose", "h2o2Dose"}

NextAdvisory ==
  \/ \E key \in AdvisoryEdits : \E value \in SystemDomain[key] : HandleSystemChange(key, value)
  \/ \E value \in WaterDomain["ph"] : HandleWaterChange("ph", value)
  \/ HandleReset
  \/ TriggerAiAnalysis
  \/ \E response \in Responses : ResolveAiAnalysis(response)
  \/ RejectAiAnalysis

SpecAdvisory == Init /\ [][NextAdvisory]_vars

\* the promise of getExpertAnalysis settles: it resolves or it rejects
SettleAiAnalysis ==
  \/ \E response \in Responses : ResolveAiAnalysis(response)
  \/ RejectAiAnalysis

\* every awaited analysis eventually settles
SpecAdvisoryFair == SpecAdvisory /\ WF_vars(SettleAiAnalysis)

\* aiAnalysis.recommendations.map / aiAnalysis.warnings.map in the AI Insights
\* section, rendered when aiAnalysis is truthy
RenderThrows ==
  /\ aiAnalysis # Null
  /\ aiAnalysis.recommendations.type # "array" \/ aiAnalysis.warnings.type # "array"

(***************************************************************************)
(* One run of calculateTreatmentResults, followed statement group by       *)
(* statement group in the order of the source.  run.env holds the locals   *)
(* the groups hand to one another; a local read before its declaration     *)
(* has run is a ReferenceError, a property read of an undefined argument   *)
(* a TypeError.                                                            *)
(***************************************************************************)

\* an argument that was not passed
Undefined == [undefined |-> TRUE]

\* a local whose declaration has not run yet
Unset == "unset"

\* no value returned (yet)
NoResult == [none |-> TRUE]

LrvNames == {"lrvProtozoa", "lrvBacteria", "lrvVirus"}

LocalNames ==
  {"calculatedResidual", "t10", "ctValue", "exposure", "mibFrac", "geosminFrac",
   "bromate", "finalDoc"} \cup LrvNames

\* the arguments the runs are started with
RunSystems ==
  { [DEFAULT_SYSTEM_PARAMS EXCEPT !.ozoneDose = d, !.h2o2Dose = h, !.flowRate = q] :
      d \in {Dec[25, -1], Dec[5, 0], Zero}, h \in {Zero, Dec[1, -1], Dec[2, 0]},
      q \in {Dec[1000, 0], Zero} }

RunWaters ==
  { [DEFAULT_WATER_PARAMS EXCEPT !.ph = p, !.doc = c] :
      p \in {Dec[78, -1], Dec[4, 0]}, c \in {Dec[45, -1], Zero} }

RunKinetics == KineticDomain \cup {Undefined}

InitRun ==
  /\ systemParams \in RunSystems
  /\ waterParams \in RunWaters
  /\ kineticParams \in RunKinetics
  /\ results = NoResult
  /\ lastCall = ThisCall
  /\ steps = 0
  /\ aiAnalysis = Null
  /\ isAnalyzing = FALSE
  /\ inflight = NoRequest
  /\ run = [ pc |-> "residual", env |-> [n \in LocalNames |-> Unset], thrown |-> "none",
             unsetRead |-> {}, rewritten |-> {} ]

\* the order of the statement groups in the source
\* the CT value computed before the contact time
NextStage_CtBeforeT10(stage) ==
  CASE stage = "residual" -> "ctValue"
    [] stage = "ctValue" -> "t10"
    [] stage = "t10" -> "exposure"
    [] stage = "exposure" -> "fractions"
    [] stage = "fractions" -> "bromate"
    [] stage = "bromate" -> "finalDoc"
    [] stage = "finalDoc" -> "lrv"
    [] stage = "lrv" -> "aop"
    [] stage = "aop" -> "return"
    [] stage = "return" -> "done"

NextStage(stage) ==
  CASE stage = "residual" -> "t10"
    [] stage = "t10" -> "ctValue"
    [] stage = "ctValue" -> "exposure"
    [] stage = "exposure" -> "fractions"
    [] stage = "fractions" -> "bromate"
    [] stage = "bromate" -> "finalDoc"
    [] stage = "finalDoc" -> "lrv"
    [] stage = "lrv" -> "aop"
    [] stage = "aop" -> "return"
    [] stage = "return" -> "done"

\* the statement group `stage` runs: it reads the locals `reads` and assigns
\* the locals in the domain of `writes`
Exec(stage, reads, writes) ==
  /\ run.pc = stage
  /\ IF \E n \in reads : run.env[n] = Unset
     THEN run' = [run EXCEPT !.pc = "threw", !.thrown = "ReferenceError",
                             !.unsetRead = @ \cup {n \in reads : run.env[n] = Unset}]
     ELSE run' = [run EXCEPT !.pc = NextStage(stage),
                             !.env = [n \in LocalNames |->
                                        IF n \in DOMAIN writes THEN writes[n] ELSE @[n]],
                             !.rewritten = @ \cup {n \in DOMAIN writes : run.env[n] # Unset}]
  /\ UNCHANGED <<systemParams, waterParams, kineticParams, lastCall, steps,
                 aiAnalysis, isAnalyzing, inflight>>

\* lines 14-17
StageResidual ==
  /\ Exec("residual", {}, "calculatedResidual" :> calculatedResidual(systemParams, waterParams))
  /\ UNCHANGED results

\* lines 19-21
StageT10 ==
  /\ Exec("t10", {}, "t10" :> t10(systemParams))
  /\ UNCHANGED results

\* line 22
StageCt ==
  /\ Exec("ctValue", {"calculatedResidual", "t10"},
          "ctValue" :> ctValue(run.env["calculatedResidual"], run.env["t10"]))
  /\ UNCHANGED results

\* lines 25-28
StageExposure ==
  /\ Exec("exposure", {"t10"}, "exposure" :> exposure(systemParams, run.env["t10"]))
  /\ UNCHANGED results

\* lines 30-37: kinetics.mib_kOH is the first read of the kinetics argument
StageFractions ==
  /\ IF kineticParams = Undefined
     THEN /\ run.pc = "fractions"
          /\ run' = [run EXCEPT !.pc = "threw", !.thrown = "TypeError"]
          /\ UNCHANGED <<systemParams, waterParams, kineticParams, lastCall, steps,
                         aiAnalysis, isAnalyzing, inflight>>
     ELSE Exec("fractions", {"exposure"},
               ("mibFrac" :> MathExp[Mul[Neg[k_eff_mib(systemParams, waterParams, kineticParams)],
                                          run.env["exposure"]]])
               @@ ("geosminFrac" :>
                     MathExp[Mul[Neg[k_eff_geosmin(systemParams, waterParams, kineticParams)],
                                 run.env["exposure"]]]))
  /\ UNCHANGED results

\* lines 40-43
StageBromate ==
  /\ Exec("bromate", {"t10"}, "bromate" :> bromate(systemParams, waterParams, run.env["t10"]))
  /\ UNCHANGED results

\* lines 46-47
StageFinalDoc ==
  /\ Exec("finalDoc", {}, "finalDoc" :> finalDoc(systemParams, waterParams))
  /\ UNCHANGED results

\* lines 51-65
StageLrv ==
  /\ Exec("lrv", {"ctValue"},
          ("lrvProtozoa" :> Div[run.env["ctValue"], ctReqCrypto1Log(ctTempFactor(waterParams))])
          @@ ("lrvBacteria" :> Div[run.env["ctValue"], ctReqBacteria1Log(ctTempFactor(waterParams))])
          @@ ("lrvVirus" :> Mul[Div[run.env["ctValue"], ctReqVirus3Log(ctTempFactor(waterParams))],
                                Dec[3, 0]]))
  /\ UNCHANGED results

\* lines 68-72
StageAop ==
  /\ Exec("aop", {},
          IF isAopMode(systemParams)
          THEN [n \in LrvNames |-> Disqualify(TRUE, run.env[n])]
          ELSE [n \in {} |-> Zero])
  /\ UNCHANGED results

\* lines 75-92
StageReturn ==
  /\ Exec("return", LocalNames, [n \in {} |-> Zero])
  /\ results' =
       IF \E n \in LocalNames : run.env[n] = Unset THEN results
       ELSE [ bromate |-> ToFixed[run.env["bromate"], 2],
              finalPh |-> ToFixed[Sub[waterParams.ph, Mul[Dec[3, -2], systemParams.ozoneDose]], 2],
              finalMib |-> ToFixed[Mul[waterParams.mib, run.env["mibFrac"]], 2],
              finalGeosmin |-> ToFixed[Mul[waterParams.geosmin, run.env["geosminFrac"]], 2],
              finalDoc |-> ToFixed[run.env["finalDoc"], 2],
              removalMibPercent |-> ToFixed[Mul[Sub[One, run.env["mibFrac"]], Dec[100, 0]], 1],
              removalGeosminPercent |->
                ToFixed[Mul[Sub[One, run.env["geosminFrac"]], Dec[100, 0]], 1],
              removalDocPercent |->
                ToFixed[Mul[Sub[One, Div[run.env["finalDoc"], waterParams.doc]], Dec[100, 0]], 1],
              contactTimeT10 |-> ToFixed[run.env["t10"], 1],
              ctValue |-> ToFixed[run.env["ctValue"], 2],
              lrvVirus |-> ToFixed[MathMin[MAX_LOG_CREDIT, run.env["lrvVirus"]], 2],
              lrvBacteria |-> ToFixed[MathMin[MAX_LOG_CREDIT, run.env["lrvBacteria"]], 2],
              lrvProtozoa |-> ToFixed[MathMin[MAX_LOG_CREDIT, run.env["lrvProtozoa"]], 2],
              calculatedResidual |-> ToFixed[run.env["calculatedResidual"], 2] ]

NextRun ==
  \/ StageResidual
  \/ StageT10
  \/ StageCt
  \/ StageExposure
  \/ StageFractions
  \/ StageBromate
  \/ StageFinalDoc
  \/ StageLrv
  \/ StageAop
  \/ StageReturn

SpecRun == InitRun /\ [][NextRun]_vars

\* a completed run returns what the engine returns for its arguments
RunReturnsEngineResult ==
  run.pc = "done" =>
    results = calculateTreatmentResults(systemParams, waterParams, kineticParams)

(***************************************************************************)
(* Properties of the engine, stated on the current call (systemParams,     *)
(* waterParams, kineticParams, results) and, for the relational ones, on   *)
(* the current and the previous call.                                      *)
(***************************************************************************)
LrvFields == {"lrvVirus", "lrvBacteria", "lrvProtozoa"}

AbsNum(x) == IF Lt(x, Zero) THEN Neg[x] ELSE x

SameBut(r1, r2, keys) == \A k \in DOMAIN r1 : k \notin keys => r1[k] = r2[k]

\* the previous and the current call differ only in one field of the system
OnlySystemFieldDiffers(key) ==
  /\ lastCall.water = waterParams
  /\ lastCall.kinetics = kineticParams
  /\ lastCall.system[key] # systemParams[key]
  /\ SameBut(lastCall.system, systemParams, {key})

\* the previous and the current call differ only in one field of the water
OnlyWaterFieldDiffers(key) ==
  /\ lastCall.system = systemParams
  /\ lastCall.kinetics = kineticParams
  /\ lastCall.water[key] # waterParams[key]
  /\ SameBut(lastCall.water, waterParams, {key})

\* the previous and the current call differ only in the kinetics
OnlyKineticsDiffer ==
  /\ lastCall.system = systemParams
  /\ lastCall.water = waterParams
  /\ lastCall.kinetics # kineticParams

\* of the two calls, the one with the smaller / larger value of a field
LoSystem(key) == IF Lt(lastCall.system[key], systemParams[key]) THEN lastCall ELSE ThisCall

HiSystem(key) == IF Lt(lastCall.system[key], systemParams[key]) THEN ThisCall ELSE lastCall

LoWater(key) == IF Lt(lastCall.water[key], waterParams[key]) THEN lastCall ELSE ThisCall

HiWater(key) == IF Lt(lastCall.water[key], waterParams[key]) THEN ThisCall ELSE lastCall

\* the unrounded CT value and bromate of a call
CtOf(call) == ctValue(calculatedResidual(call.system, call.water), t10(call.system))

BromateOf(call) == bromate(call.system, call.water, t10(call.system))

\* C1 (AOP disqualification): whenever the current call has h2o2Dose > 0 the
\* three returned LRVs are 0, whatever the CT value, temperature and ozone
\* dose; and the branch is decided by the current call alone: a call with
\* h2o2Dose = 0 and a positive returned CT value has a positive virus credit,
\* whatever the previous call was.
C1_AopDisqualification ==
  /\ Gt(systemParams.h2o2Dose, Zero) => \A f \in LrvFields : results[f] = Zero
  /\ (systemParams.h2o2Dose = Zero /\ Gt(results.ctValue, Zero)) => Gt(results.lrvVirus, Zero)

\* a call with peroxide whose CT value is positive, after a call without
\* peroxide that earned credit
C1_Witness ==
  /\ Gt(systemParams.h2o2Dose, Zero)
  /\ Gt(results.ctValue, Zero)
  /\ \A f \in LrvFields : results[f] = Zero
  /\ lastCall.system.h2o2Dose = Zero
  /\ Gt(lastCall.result.lrvVirus, Zero)

C3_AllFieldsFinite == \A f \in DOMAIN results : IsFinite(results[f])

\* C4 (zero-dose edge case): with ozoneDose = 0 the returned residual, CT
\* value and the three LRVs are 0, all other parameters arbitrary.
C4_ZeroDoseYieldsZero ==
  systemParams.ozoneDose = Zero =>
    /\ results.calculatedResidual = Zero
    /\ results.ctValue = Zero
    /\ \A f \in LrvFields : results[f] = Zero

\* the data-model ranges of C5
InDataModelRanges ==
  /\ Gt(systemParams.flowRate, Zero)
  /\ Ge(systemParams.ozoneDose, Zero)
  /\ Ge(systemParams.h2o2Dose, Zero)
  /\ Gt(systemParams.tankLength, Zero)
  /\ Gt(systemParams.tankWidth, Zero)
  /\ Gt(systemParams.waterDepth, Zero)
  /\ Gt(systemParams.bafflingFactor, Zero)
  /\ Le(systemParams.bafflingFactor, One)
  /\ Gt(waterParams.doc, Zero)
  /\ Ge(waterParams.mib, Zero)
  /\ Ge(waterParams.geosmin, Zero)

\* C5 (non-negativity): for every input in the data-model ranges, every
\* returned field other than finalPh is finite and >= 0.
C5_NonNegative ==
  InDataModelRanges =>
    \A f \in DOMAIN results \ {"finalPh"} : IsFinite(results[f]) /\ Ge(results[f], Zero)

\* C6 (CT monotonicity, as stated): of two calls that differ only in
\* ozoneDose, the one with the larger dose has the strictly larger CT value
\* (unrounded, or as returned).
C6_CtStrictlyIncreasing ==
  OnlySystemFieldDiffers("ozoneDose") =>
    \/ Lt(CtOf(LoSystem("ozoneDose")), CtOf(HiSystem("ozoneDose")))
    \/ Lt(LoSystem("ozoneDose").result.ctValue, HiSystem("ozoneDose").result.ctValue)

\* C6 (CT monotonicity, amended): of two calls that differ only in ozoneDose
\* (T10 > 0), the one with the larger dose never has the smaller CT value,
\* unrounded or as returned, and has the strictly larger unrounded CT value
\* exactly when it leaves a positive residual; when it leaves none, both CT
\* values are 0.
C6_CtMonotone ==
  (OnlySystemFieldDiffers("ozoneDose") /\ Gt(t10(systemParams), Zero)) =>
    /\ Le(CtOf(LoSystem("ozoneDose")), CtOf(HiSystem("ozoneDose")))
    /\ Le(LoSystem("ozoneDose").result.ctValue, HiSystem("ozoneDose").result.ctValue)
    /\ IF Gt(calculatedResidual(HiSystem("ozoneDose").system, waterParams), Zero)
       THEN Lt(CtOf(LoSystem("ozoneDose")), CtOf(HiSystem("ozoneDose")))
       ELSE CtOf(LoSystem("ozoneDose")) = Zero /\ CtOf(HiSystem("ozoneDose")) = Zero

\* two doses above the ozone demand: the CT value grows with the dose
C6_Witness ==
  /\ OnlySystemFieldDiffers("ozoneDose")
  /\ Gt(LoSystem("ozoneDose").result.calculatedResidual, Zero)
  /\ Lt(LoSystem("ozoneDose").result.ctValue, HiSystem("ozoneDose").result.ctValue)

\* C7 (removal monotonicity): of two calls that differ only in ozoneDose, the
\* one with the larger dose has removalMibPercent and removalGeosminPercent
\* at least those of the other, in ozone-only and in AOP mode and across
\* ozoneDose = 0.
C7_RemovalMonotone ==
  OnlySystemFieldDiffers("ozoneDose") =>
    /\ Le(LoSystem("ozoneDose").result.removalMibPercent,
          HiSystem("ozoneDose").result.removalMibPercent)
    /\ Le(LoSystem("ozoneDose").result.removalGeosminPercent,
          HiSystem("ozoneDose").result.removalGeosminPercent)

\* final concentrations f1, f2 of influent concentrations c1, c2 stand in the
\* ratio c1 : c2, within the rounding to 2 decimals and of the arithmetic; when
\* one is not finite, both are the product of one non-finite fraction
Proportional(f1, c1, f2, c2) ==
  IF IsFinite(f1) /\ IsFinite(f2)
  THEN Le(AbsNum(Sub[Mul[f1, c2], Mul[f2, c1]]),
          Add[Mul[Dec[5, -3], Add[c1, c2]], Mul[Dec[1, -6], AbsNum(Mul[f1, c2])]])
  ELSE \E frac \in {PosInf, NegInf, NaN} : f1 = Mul[c1, frac] /\ f2 = Mul[c2, frac]

\* C8 (concentration independence): two calls that differ only in water.mib
\* return the same removalMibPercent and every other field the same except
\* finalMib, which stands in the ratio of the two influent concentrations
\* (within rounding); the same for water.geosmin, removalGeosminPercent and
\* finalGeosmin.
C8_ConcentrationIndependence ==
  /\ OnlyWaterFieldDiffers("mib") =>
       /\ SameBut(lastCall.result, results, {"finalMib"})
       /\ Proportional(lastCall.result.finalMib, lastCall.water.mib,
                       results.finalMib, waterParams.mib)
  /\ OnlyWaterFieldDiffers("geosmin") =>
       /\ SameBut(lastCall.result, results, {"finalGeosmin"})
       /\ Proportional(lastCall.result.finalGeosmin, lastCall.water.geosmin,
                       results.finalGeosmin, waterParams.geosmin)

\* the influent MIB changed, with part of it removed: finalMib moved and
\* removalMibPercent did not
C8_Witness ==
  /\ OnlyWaterFieldDiffers("mib")
  /\ Gt(results.removalMibPercent, Zero)
  /\ Lt(results.removalMibPercent, Dec[100, 0])
  /\ results.finalMib # lastCall.result.finalMib
  /\ results.removalMibPercent = lastCall.result.removalMibPercent

\* C9 (bromate suppression, as stated): of two calls that differ only in
\* h2o2Dose, or only in ammonia, the one with the larger value has the
\* strictly smaller bromate (unrounded, or as returned).
C9_BromateStrictlyDecreasing ==
  /\ OnlySystemFieldDiffers("h2o2Dose") =>
       \/ Lt(BromateOf(HiSystem("h2o2Dose")), BromateOf(LoSystem("h2o2Dose")))
       \/ Lt(HiSystem("h2o2Dose").result.bromate, LoSystem("h2o2Dose").result.bromate)
  /\ OnlyWaterFieldDiffers("ammonia") =>
       \/ Lt(BromateOf(HiWater("ammonia")), BromateOf(LoWater("ammonia")))
       \/ Lt(HiWater("ammonia").result.bromate, LoWater("ammonia").result.bromate)

\* the call hi suppresses the bromate of the call lo: the returned bromate is
\* not larger, and the unrounded bromate is strictly smaller when that of lo
\* is positive and 0 like it otherwise
Suppresses(lo, hi) ==
  /\ Le(hi.result.bromate, lo.result.bromate)
  /\ IF Gt(BromateOf(lo), Zero)
     THEN Lt(BromateOf(hi), BromateOf(lo))
     ELSE BromateOf(lo) = Zero /\ BromateOf(hi) = Zero

\* C9 (bromate suppression, amended): of two calls that differ only in
\* h2o2Dose, or only in ammonia, the one with the larger value never returns
\* the larger bromate, and its unrounded bromate is strictly smaller when the
\* other's is positive (bromide > 0 and ozoneDose > 0) and 0 like it
\* otherwise; the returned bromate is never negative.
C9_BromateSuppression ==
  /\ Ge(results.bromate, Zero)
  /\ OnlySystemFieldDiffers("h2o2Dose") => Suppresses(LoSystem("h2o2Dose"), HiSystem("h2o2Dose"))
  /\ OnlyWaterFieldDiffers("ammonia") => Suppresses(LoWater("ammonia"), HiWater("ammonia"))

\* peroxide raised over a positive bromate: the returned bromate fell
C9_Witness ==
  /\ OnlySystemFieldDiffers("h2o2Dose")
  /\ Gt(HiSystem("h2o2Dose").result.bromate, Zero)
  /\ Lt(HiSystem("h2o2Dose").result.bromate, LoSystem("h2o2Dose").result.bromate)

\* C10 (kinetics frame): two calls with the same system and water parameters
\* and different kinetics return the same bromate, finalPh, finalDoc,
\* removalDocPercent, contactTimeT10, ctValue, calculatedResidual and LRVs;
\* only finalMib, finalGeosmin, removalMibPercent and removalGeosminPercent
\* may differ.
C10_KineticsFrame ==
  OnlyKineticsDiffer =>
    SameBut(lastCall.result, results,
            {"finalMib", "finalGeosmin", "removalMibPercent", "removalGeosminPercent"})

\* the kinetics changed and moved the MIB and geosmin outputs
C10_Witness ==
  /\ OnlyKineticsDiffer
  /\ results.removalMibPercent # lastCall.result.removalMibPercent
  /\ results.finalGeosmin # lastCall.result.finalGeosmin

\* C11 (default kinetics): a run started without a kinetics argument completes
\* normally and returns a TreatmentResult; it never throws.
C11_AbsentKineticsCompletes ==
  kineticParams = Undefined =>
    /\ run.pc # "threw"
    /\ run.pc = "done" => \A f \in {"finalMib", "finalGeosmin", "ctValue"} : IsFinite(results[f])

\* generateContent rejected, or resolved with a text that is no JSON
ServiceCallFailed(response) ==
  \/ response.kind = "rejects"
  \/ response.kind = "resolves" /\ response.text # "" /\ JsonParse(response.text) = SyntaxError

\* C14 (zero-flow guard): with flowRate = 0 the contact time is
\* tankLength x tankWidth x waterDepth x 60 x bafflingFactor, and the returned
\* contactTimeT10 and ctValue are finite and equal to those of the same input
\* with flowRate = 1.
C14_ZeroFlowGuard ==
  systemParams.flowRate = Zero =>
    /\ t10(systemParams) =
         Mul[Mul[Mul[Mul[systemParams.tankLength, systemParams.tankWidth],
                     systemParams.waterDepth], Dec[60, 0]], systemParams.bafflingFactor]
    /\ IsFinite(results.contactTimeT10)
    /\ IsFinite(results.ctValue)
    /\ results.contactTimeT10 =
         calculateTreatmentResults([systemParams EXCEPT !.flowRate = One], waterParams,
                                   kineticParams).contactTimeT10
    /\ results.ctValue =
         calculateTreatmentResults([systemParams EXCEPT !.flowRate = One], waterParams,
                                   kineticParams).ctValue

\* zero flow with a positive residual: the contact time is the 10800 minutes
\* of flowRate = 1 and the CT value is positive
C14_Witness ==
  /\ systemParams.flowRate = Zero
  /\ results.contactTimeT10 = Dec[10800, 0]
  /\ Gt(results.ctValue, Zero)

\* C15 (end-to-end example): for the default system and water parameters the
\* retention time is 18 min, contactTimeT10 is 10.8, calculatedResidual > 0,
\* bromate < 10 and both removal percentages are strictly between 0 and 100.
C15_DefaultExample ==
  (systemParams = DEFAULT_SYSTEM_PARAMS /\ waterParams = DEFAULT_WATER_PARAMS) =>
    /\ hrt(systemParams) = Dec[18, 0]
    /\ results.contactTimeT10 = Dec[108, -1]
    /\ Gt(results.calculatedResidual, Zero)
    /\ Lt(results.bromate, Dec[10, 0])
    /\ Gt(results.removalMibPercent, Zero) /\ Lt(results.removalMibPercent, Dec[100, 0])
    /\ Gt(results.removalGeosminPercent, Zero) /\ Lt(results.removalGeosminPercent, Dec[100, 0])

\* the defaults, computed again after other inputs
C15_Witness ==
  /\ steps > 0
  /\ systemParams = DEFAULT_SYSTEM_PARAMS
  /\ waterParams = DEFAULT_WATER_PARAMS
  /\ lastCall.system # DEFAULT_SYSTEM_PARAMS
  /\ results.contactTimeT10 = Dec[108, -1]
  /\ results.calculatedResidual = Dec[9, -2]

AopEnhancementCap == Dec[4, 0]

\* C17 (AOP-enhancement factor): the AOP factor is exactly 1 when h2o2Dose = 0;
\* when h2o2Dose > 0 it is at least 1, does not decrease when only h2o2Dose
\* grows, and never exceeds the fixed cap, however large the ratio
\* h2o2Dose / ozoneDose (ozoneDose = 0 counted as 1).
C17_AopFactorCapped ==
  /\ systemParams.h2o2Dose = Zero => aopFactor(systemParams) = One
  /\ Gt(systemParams.h2o2Dose, Zero) =>
       /\ Ge(aopFactor(systemParams), One)
       /\ Le(aopFactor(systemParams), AopEnhancementCap)
  /\ ( /\ lastCall.system.ozoneDose = systemParams.ozoneDose
       /\ Le(lastCall.system.h2o2Dose, systemParams.h2o2Dose) )
       => Le(aopFactor(lastCall.system), aopFactor(systemParams))

IsSet(name) == run.env[name] # Unset

\* C18 (intra-run stage ordering): within one run no statement group reads a
\* local that a later group produces; the residual and T10 are set before CT
\* (which is their product), CT before every LRV, the exposure before the
\* MIB and geosmin fractions; no local is assigned twice except the three
\* LRVs, overwritten with 0 in AOP mode only, before the cap and rounding of
\* the return statement, which therefore returns 0 for them.
C18_StageOrdering ==
  /\ run.unsetRead = {}
  /\ run.thrown # "ReferenceError"
  /\ IsSet("ctValue") =>
       /\ IsSet("calculatedResidual") /\ IsSet("t10")
       /\ run.env["ctValue"] = ctValue(run.env["calculatedResidual"], run.env["t10"])
  /\ \A n \in LrvNames : IsSet(n) => IsSet("ctValue")
  /\ (IsSet("mibFrac") \/ IsSet("geosminFrac")) => IsSet("exposure")
  /\ run.rewritten \subseteq LrvNames
  /\ run.rewritten # {} =>
       /\ isAopMode(systemParams)
       /\ run.rewritten = LrvNames
       /\ run.pc \in {"return", "done"}
       /\ \A n \in LrvNames : run.env[n] = Zero
  /\ run.pc \in {"residual", "t10", "ctValue", "exposure", "fractions", "bromate",
                  "finalDoc", "lrv", "aop", "return"} => results = NoResult
  /\ (run.pc = "done" /\ isAopMode(systemParams)) =>
       results.lrvVirus = Zero /\ results.lrvBacteria = Zero /\ results.lrvProtozoa = Zero

\* a completed run in AOP mode with a positive CT value: the three LRVs were
\* computed from it and then overwritten
C18_Witness ==
  /\ run.pc = "done"
  /\ isAopMode(systemParams)
  /\ run.rewritten = LrvNames
  /\ Gt(run.env["ctValue"], Zero)
  /\ results.lrvVirus = Zero

\* the fields of the records before and after in which they differ
ChangedFields(before, after) == {key \in DOMAIN after : before[key] # after[key]}

\* an edit changed one field and no other
C19_EditFrame ==
  (systemParams # DEFAULT_SYSTEM_PARAMS \/ waterParams # DEFAULT_WATER_PARAMS) =>
    Cardinality(ChangedFields(lastCall.system, systemParams))
      + Cardinality(ChangedFields(lastCall.water, waterParams)) <= 1

\* C19 (valid snapshots): after any sequence of field edits and resets the
\* parameters handed to the engine have flowRate > 0 and doc > 0 (a text that
\* is no number leaves the field at its last valid value), and an edit of one
\* field leaves every other field unchanged.
C19_ValidSnapshots ==
  /\ Gt(systemParams.flowRate, Zero)
  /\ Gt(waterParams.doc, Zero)
  /\ C19_EditFrame

\* while the busy flag is set no second request is started
C21_NoSecondRequest ==
  [][isAnalyzing => (inflight'.request = inflight.request /\ ~(~inflight.pending /\ inflight'.pending))]_vars

\* C21 (busy flag is always cleared): every triggerAiAnalysis that sets
\* isAnalyzing to true is eventually followed by isAnalyzing being false again,
\* whatever the outcome of getExpertAnalysis, so the Process Audit button is
\* eventually enabled again.
C21_BusyFlagCleared == isAnalyzing ~> ~isAnalyzing

\* C22 (reported residual, CT and credit are consistent): in every returned
\* TreatmentResult whose fields are finite, a two-decimal calculatedResidual
\* of 0 comes with a ctValue of 0 and with lrvVirus, lrvBacteria and
\* lrvProtozoa of 0.
C22_ResidualCtConsistent ==
  (results.calculatedResidual = Zero /\ \A f \in DOMAIN results : IsFinite(results[f])) =>
    /\ results.ctValue = Zero
    /\ results.lrvVirus = Zero
    /\ results.lrvBacteria = Zero
    /\ results.lrvProtozoa = Zero

\* C12 (advisory fallback): whenever the last getExpertAnalysis call saw
\* generateContent reject, or resolve with a text that is no JSON, it resolved
\* with the fixed fallback: the static unavailability summary, exactly two
\* recommendations and exactly one warning, whatever its arguments were.
C12_AdvisoryFallback ==
  (inflight.last.resolved /\ ServiceCallFailed(inflight.last.response)) =>
    /\ inflight.last.outcome = FALLBACK
    /\ inflight.last.outcome.summary.type = "string"
    /\ Len(inflight.last.outcome.recommendations.items) = 2
    /\ Len(inflight.last.outcome.warnings.items) = 1

\* a text that is no JSON came back for an AOP request and the fallback is
\* displayed
C12_Witness ==
  /\ inflight.last.resolved
  /\ inflight.last.response.kind = "resolves"
  /\ ServiceCallFailed(inflight.last.response)
  /\ Gt(inflight.request.system.h2o2Dose, Zero)
  /\ aiAnalysis = FALLBACK

\* an AiAnalysis: summary a text, recommendations and warnings lists
WellFormed(value) ==
  /\ value # Null
  /\ value.summary.type = "string"
  /\ value.recommendations.type = "array"
  /\ value.warnings.type = "array"

\* C13 (advisory result well formed): every value getExpertAnalysis resolves
\* with has the three fields summary (text), recommendations (list) and
\* warnings (list), and App rendering aiAnalysis never fails.
C13_AdvisoryWellFormed ==
  /\ inflight.last.resolved => WellFormed(inflight.last.outcome)
  /\ ~RenderThrows

\* C20 (reset versus an analysis in flight): a displayed analysis was never
\* requested before the last reset: a call that was awaiting when Reset was
\* pressed does not set aiAnalysis afterwards.
C20_NoStaleAnalysisAfterReset ==
  aiAnalysis # Null => ~inflight.last.stale

=============================================================================
